---- MODULE Spec2Model ----
(***************************************************************************)
(* The task store of the weekly planner (src/src/App.tsx, WeeklyPlanner):  *)
(* seven day buckets, the billing folder, the selection, the clipboard,    *)
(* the pending drag payload and the edit modal, with one action per event  *)
(* handler.  Every handler runs to completion on one user event, and the   *)
(* component re-renders before the next event, so the values a handler     *)
(* closes over are the current state.                                      *)
(***************************************************************************)
EXTENDS Integers, Sequences, FiniteSets, TLC

VARIABLES
    tasks,          \* useState<TasksState>: day -> sequence of Task
    folder,         \* useState<Task[]>
    draggedTask,    \* useState<DraggedTaskState>
    selectedTasks,  \* useState<Task[]>
    clipboard,      \* useState<Task[]>
    clipboardMode,  \* useState<ClipboardMode>
    isModalOpen,    \* useState<boolean>
    currentTask,    \* useState<Task | null>
    formData,       \* useState<TaskFormData>
    session,        \* environment: the user's columns and number of events
    steps,          \* history: number of user events handled so far
    seenIds,        \* history: every task id observed anywhere so far
    last,           \* history: the last event handled and its arguments
    before          \* history: the task state before the last event

store == <<tasks, folder, draggedTask, selectedTasks, clipboard, clipboardMode,
           isModalOpen, currentTask, formData>>

vars == <<tasks, folder, draggedTask, selectedTasks, clipboard, clipboardMode,
          isModalOpen, currentTask, formData, session, steps, seenIds, last, before>>

-----------------------------------------------------------------------------
(* Bounds of the exploration.                                              *)

\* A session is the columns the user works in and the number of user events
\* handled: a longer session in two columns holding one task at the start, a
\* shorter one in two columns holding a task each.
MaxEventsDeep == 7
MaxEventsWide == 5

\* Copy-mode pastes stop once an allocated id would exceed MaxId.
MaxId == 9

-----------------------------------------------------------------------------
(* Data.                                                                   *)

weekdays == <<"Lundi", "Mardi", "Mercredi", "Jeudi", "Vendredi", "Samedi", "Dimanche">>

Days == {weekdays[i] : i \in 1..Len(weekdays)}

Task(i, t, d, p) == [id |-> i, title |-> t, description |-> d, points |-> p]

\* The seed of useState<TasksState> (accents dropped from the strings).
SeedTasks ==
    [day \in Days |->
        CASE day = "Lundi"    -> << Task(1, "Reunion d'equipe", "9h - Point hebdomadaire", 2),
                                    Task(2, "Analyse des besoins", "Recueillir les besoins client", 5) >>
          [] day = "Mardi"    -> << Task(3, "Conception UI", "Creer les maquettes", 8),
                                    Task(4, "Revue de code", "Revue des PR en attente", 3) >>
          [] day = "Mercredi" -> << Task(5, "Developpement API", "Endpoints backend", 13) >>
          [] day = "Jeudi"    -> << Task(6, "Tests fonctionnels", "Tests d'acceptation", 5),
                                    Task(7, "Documentation", "Mise a jour de la doc technique", 3) >>
          [] day = "Vendredi" -> << Task(8, "Deploiement", "Mise en production v1.2", 8) >>
          [] OTHER            -> << >>]

Null == [kind |-> "null"]
SingleTask(t) == [kind |-> "singleTask", singleTask |-> t]
MultiTasks(ts) == [kind |-> "multiTasks", multiTasks |-> ts]

-----------------------------------------------------------------------------
(* Array helpers, as the handlers use them.                                *)

Range(s) == {s[i] : i \in 1..Len(s)}

Ids(s) == {s[i].id : i \in 1..Len(s)}

\* array.some(t => t.id === id)
SomeId(s, id) == \E i \in 1..Len(s) : s[i].id = id

\* array.filter(t => t.id !== id)
FilterOutId(s, id) == SelectSeq(s, LAMBDA t : t.id # id)

\* array.findIndex(t => t.id === id), 0 standing for -1
FindIndex(s, id) ==
    IF SomeId(s, id) THEN CHOOSE i \in 1..Len(s) : s[i].id = id /\ \A j \in 1..(i - 1) : s[j].id # id
    ELSE 0

\* The first day, in the order of weekdays (also the key order of the tasks
\* object), whose bucket holds the id; "" standing for undefined.
FindDay(ts, id) ==
    IF \E i \in 1..Len(weekdays) : SomeId(ts[weekdays[i]], id)
    THEN weekdays[CHOOSE i \in 1..Len(weekdays) :
                     /\ SomeId(ts[weekdays[i]], id)
                     /\ \A j \in 1..(i - 1) : ~SomeId(ts[weekdays[j]], id)]
    ELSE ""

AllTaskIds(ts) == UNION {Ids(ts[d]) : d \in Days}

MaxOf(S) == CHOOSE m \in S : \A x \in S : x <= m

-----------------------------------------------------------------------------
(* What the rendered page offers the user.                                 *)

Sessions == { [columns |-> {"Vendredi", "Samedi"}, events |-> MaxEventsDeep],
              [columns |-> {"Mercredi", "Vendredi"}, events |-> MaxEventsWide] }

\* The columns the user works in: cards are clicked, dragged and edited there,
\* and pastes and drops target them.
UserDays == session.columns

\* The cards rendered in those columns: tasks[day].map(task => <TaskCard task={task} />)
Cards == UNION {Range(tasks[d]) : d \in UserDays}

-----------------------------------------------------------------------------
(* State after construction.                                               *)

Init ==
    /\ tasks = SeedTasks
    /\ folder = << >>
    /\ draggedTask = Null
    /\ selectedTasks = << >>
    /\ clipboard = << >>
    /\ clipboardMode = "copy"
    /\ isModalOpen = FALSE
    /\ currentTask = Null
    /\ formData = [title |-> "", description |-> "", points |-> 0]
    /\ session \in Sessions
    /\ steps = 0
    /\ seenIds = AllTaskIds(SeedTasks)
    /\ last = [op |-> "init"]
    /\ before = [tasks |-> SeedTasks, folder |-> << >>, draggedTask |-> Null,
                 selectedTasks |-> << >>, clipboard |-> << >>, clipboardMode |-> "copy",
                 isModalOpen |-> FALSE, currentTask |-> Null,
                 formData |-> [title |-> "", description |-> "", points |-> 0]]

-----------------------------------------------------------------------------
(* History bookkeeping, common to all handlers.                            *)

Snapshot == [tasks |-> tasks, folder |-> folder, draggedTask |-> draggedTask,
             selectedTasks |-> selectedTasks, clipboard |-> clipboard,
             clipboardMode |-> clipboardMode, isModalOpen |-> isModalOpen,
             currentTask |-> currentTask, formData |-> formData]

PayloadOf(d) ==
    CASE d.kind = "multiTasks" -> d.multiTasks
      [] d.kind = "singleTask" -> << d.singleTask >>
      [] OTHER                 -> << >>

\* Ids visible anywhere in the store: buckets, folder, selection, clipboard, payload.
VisibleIds(ts, f, sel, clip, drag) ==
    AllTaskIds(ts) \cup Ids(f) \cup Ids(sel) \cup Ids(clip) \cup Ids(PayloadOf(drag))

Handled(event) ==
    /\ UNCHANGED session
    /\ steps' = steps + 1
    /\ last' = event
    /\ before' = Snapshot
    /\ seenIds' = seenIds \cup VisibleIds(tasks', folder', selectedTasks', clipboard', draggedTask')

-----------------------------------------------------------------------------
(* Selection.                                                              *)

\* Faulty variant: a plain click on the only selected task does not deselect it.
selectTaskWithoutDeselect(task, isCtrlPressed) ==
    /\ steps < session.events
    /\ IF isCtrlPressed
       THEN selectedTasks' = IF SomeId(selectedTasks, task.id)
                             THEN FilterOutId(selectedTasks, task.id)
                             ELSE Append(selectedTasks, task)
       ELSE selectedTasks' = << task >>
    /\ UNCHANGED <<tasks, folder, draggedTask, clipboard, clipboardMode,
                   isModalOpen, currentTask, formData>>
    /\ Handled([op |-> "selectTask", id |-> task.id, ctrl |-> isCtrlPressed])

selectTask(task, isCtrlPressed) ==
    /\ steps < session.events
    /\ IF isCtrlPressed
       THEN selectedTasks' = IF SomeId(selectedTasks, task.id)
                             THEN FilterOutId(selectedTasks, task.id)
                             ELSE Append(selectedTasks, task)
       ELSE selectedTasks' = IF Len(selectedTasks) = 1 /\ selectedTasks[1].id = task.id
                             THEN << >>
                             ELSE << task >>
    /\ UNCHANGED <<tasks, folder, draggedTask, clipboard, clipboardMode,
                   isModalOpen, currentTask, formData>>
    /\ Handled([op |-> "selectTask", id |-> task.id, ctrl |-> isCtrlPressed])

-----------------------------------------------------------------------------
(* Clipboard.                                                              *)

copySelectedTasks ==
    /\ steps < session.events
    /\ IF Len(selectedTasks) > 0
       THEN /\ clipboard' = selectedTasks
            /\ clipboardMode' = "copy"
       ELSE UNCHANGED <<clipboard, clipboardMode>>
    /\ UNCHANGED <<tasks, folder, draggedTask, selectedTasks,
                   isModalOpen, currentTask, formData>>
    /\ Handled([op |-> "copySelectedTasks"])

\* selectedTasks.forEach(taskToCut => ...) over newTasks, from index i on.
RECURSIVE CutFrom(_, _, _)
CutFrom(ts, sel, i) ==
    IF i > Len(sel) THEN ts
    ELSE LET sourceDay == FindDay(ts, sel[i].id)
         IN  CutFrom(IF sourceDay # ""
                     THEN [ts EXCEPT ![sourceDay] = FilterOutId(ts[sourceDay], sel[i].id)]
                     ELSE ts,
                     sel, i + 1)

\* Faulty variant: the selection is not cleared after the cut.
cutKeepingSelection ==
    /\ steps < session.events
    /\ IF Len(selectedTasks) > 0
       THEN /\ clipboard' = selectedTasks
            /\ clipboardMode' = "cut"
            /\ tasks' = CutFrom(tasks, selectedTasks, 1)
            /\ UNCHANGED selectedTasks
       ELSE UNCHANGED <<clipboard, clipboardMode, tasks, selectedTasks>>
    /\ UNCHANGED <<folder, draggedTask, isModalOpen, currentTask, formData>>
    /\ Handled([op |-> "cutSelectedTasks"])

cutSelectedTasks ==
    /\ steps < session.events
    /\ IF Len(selectedTasks) > 0
       THEN /\ clipboard' = selectedTasks
            /\ clipboardMode' = "cut"
            /\ tasks' = CutFrom(tasks, selectedTasks, 1)
            /\ selectedTasks' = << >>
       ELSE UNCHANGED <<clipboard, clipboardMode, tasks, selectedTasks>>
    /\ UNCHANGED <<folder, draggedTask, isModalOpen, currentTask, formData>>
    /\ Handled([op |-> "cutSelectedTasks"])

\* let nextId = allTaskIds.length > 0 ? Math.max(...allTaskIds) + 1 : 1
NextId(ts) == IF AllTaskIds(ts) # {} THEN MaxOf(AllTaskIds(ts)) + 1 ELSE 1

\* clipboard.map(task => ({...task, id: nextId++}))
TaskCopies(clip, nextId) == [i \in 1..Len(clip) |-> [clip[i] EXCEPT !.id = nextId + i - 1]]

\* History: the place of a paste in an uninterrupted run copy, paste(day),
\* paste(day), ...; 0 outside such a run.
PasteRun(day) ==
    CASE last.op = "copySelectedTasks" -> 1
      [] last.op = "pasteTasksToDay"   -> IF last.day = day /\ last.nth > 0 THEN last.nth + 1 ELSE 0
      [] OTHER                         -> 0

\* Faulty variant: the pasted tasks are put before the bucket's tasks.
pasteTasksToDayInFront(day) ==
    /\ steps < session.events
    /\ IF Len(clipboard) = 0
       THEN UNCHANGED <<tasks, clipboard, clipboardMode>>
       ELSE IF clipboardMode = "cut"
            THEN /\ tasks' = [tasks EXCEPT ![day] = clipboard \o tasks[day]]
                 /\ clipboard' = << >>
                 /\ clipboardMode' = "copy"
            ELSE /\ NextId(tasks) + Len(clipboard) - 1 <= MaxId
                 /\ tasks' = [tasks EXCEPT ![day] = TaskCopies(clipboard, NextId(tasks)) \o tasks[day]]
                 /\ UNCHANGED <<clipboard, clipboardMode>>
    /\ UNCHANGED <<folder, draggedTask, selectedTasks, isModalOpen, currentTask, formData>>
    /\ Handled([op |-> "pasteTasksToDay", day |-> day, nth |-> PasteRun(day)])

\* Faulty variant: a paste of cut tasks keeps the clipboard and the mode.
pasteTasksToDayKeepingCut(day) ==
    /\ steps < session.events
    /\ IF Len(clipboard) = 0
       THEN UNCHANGED <<tasks, clipboard, clipboardMode>>
       ELSE IF clipboardMode = "cut"
            THEN /\ tasks' = [tasks EXCEPT ![day] = tasks[day] \o clipboard]
                 /\ UNCHANGED <<clipboard, clipboardMode>>
            ELSE /\ NextId(tasks) + Len(clipboard) - 1 <= MaxId
                 /\ tasks' = [tasks EXCEPT ![day] = tasks[day] \o TaskCopies(clipboard, NextId(tasks))]
                 /\ UNCHANGED <<clipboard, clipboardMode>>
    /\ UNCHANGED <<folder, draggedTask, selectedTasks, isModalOpen, currentTask, formData>>
    /\ Handled([op |-> "pasteTasksToDay", day |-> day, nth |-> PasteRun(day)])

pasteTasksToDay(day) ==
    /\ steps < session.events
    /\ IF Len(clipboard) = 0
       THEN UNCHANGED <<tasks, clipboard, clipboardMode>>
       ELSE IF clipboardMode = "cut"
            THEN /\ tasks' = [tasks EXCEPT ![day] = tasks[day] \o clipboard]
                 /\ clipboard' = << >>
                 /\ clipboardMode' = "copy"
            ELSE /\ NextId(tasks) + Len(clipboard) - 1 <= MaxId
                 /\ tasks' = [tasks EXCEPT ![day] = tasks[day] \o TaskCopies(clipboard, NextId(tasks))]
                 /\ UNCHANGED <<clipboard, clipboardMode>>
    /\ UNCHANGED <<folder, draggedTask, selectedTasks, isModalOpen, currentTask, formData>>
    /\ Handled([op |-> "pasteTasksToDay", day |-> day, nth |-> PasteRun(day)])

-----------------------------------------------------------------------------
(* Billing folder.                                                         *)

\* Faulty variant: the filter's test is not negated.
NewTasksAlreadyInFolder(list, f) == SelectSeq(list, LAMBDA t : SomeId(f, t.id))

\* Faulty variant: the tasks are not filtered against the folder.
NewTasksUnfiltered(list, f) == list

\* list.filter(task => !folder.some(folderTask => folderTask.id === task.id))
NewTasksForFolder(list, f) == SelectSeq(list, LAMBDA t : ~SomeId(f, t.id))

\* Faulty variant: the selection is cleared only when an entry was added.
addSelectedTasksToFolderClearingOnAdd ==
    /\ steps < session.events
    /\ IF Len(selectedTasks) > 0
       THEN /\ folder' = folder \o NewTasksForFolder(selectedTasks, folder)
            /\ selectedTasks' = IF Len(NewTasksForFolder(selectedTasks, folder)) > 0
                                THEN << >> ELSE selectedTasks
       ELSE UNCHANGED <<folder, selectedTasks>>
    /\ UNCHANGED <<tasks, draggedTask, clipboard, clipboardMode,
                   isModalOpen, currentTask, formData>>
    /\ Handled([op |-> "addSelectedTasksToFolder"])

addSelectedTasksToFolder ==
    /\ steps < session.events
    /\ IF Len(selectedTasks) > 0
       THEN /\ folder' = folder \o NewTasksForFolder(selectedTasks, folder)
            /\ selectedTasks' = << >>
       ELSE UNCHANGED <<folder, selectedTasks>>
    /\ UNCHANGED <<tasks, draggedTask, clipboard, clipboardMode,
                   isModalOpen, currentTask, formData>>
    /\ Handled([op |-> "addSelectedTasksToFolder"])

\* Faulty variant: the removal takes the task out of its bucket too.
removeFromFolderAndBucket(taskId) ==
    /\ steps < session.events
    /\ folder' = FilterOutId(folder, taskId)
    /\ tasks' = [d \in Days |-> FilterOutId(tasks[d], taskId)]
    /\ UNCHANGED <<draggedTask, selectedTasks, clipboard, clipboardMode,
                   isModalOpen, currentTask, formData>>
    /\ Handled([op |-> "removeFromFolder", id |-> taskId])

removeFromFolder(taskId) ==
    /\ steps < session.events
    /\ folder' = FilterOutId(folder, taskId)
    /\ UNCHANGED <<tasks, draggedTask, selectedTasks, clipboard, clipboardMode,
                   isModalOpen, currentTask, formData>>
    /\ Handled([op |-> "removeFromFolder", id |-> taskId])

-----------------------------------------------------------------------------
(* Editing.                                                                *)

openEditModal(task) ==
    /\ steps < session.events
    /\ currentTask' = task
    /\ formData' = [title |-> task.title, description |-> task.description, points |-> task.points]
    /\ isModalOpen' = TRUE
    /\ UNCHANGED <<tasks, folder, draggedTask, selectedTasks, clipboard, clipboardMode>>
    /\ Handled([op |-> "openEditModal", id |-> task.id])

closeModal ==
    /\ steps < session.events
    /\ isModalOpen' = FALSE
    /\ currentTask' = Null
    /\ UNCHANGED <<tasks, folder, draggedTask, selectedTasks, clipboard, clipboardMode, formData>>
    /\ Handled([op |-> "closeModal"])

\* { ...t, ...updatedTaskData }
Updated(t, data) ==
    [t EXCEPT !.title = data.title, !.description = data.description, !.points = data.points]

\* Faulty variant: the updated task is put at the end of its bucket.
SaveIntoAtEnd(ts, id, data) ==
    LET day == FindDay(ts, id)
    IN  IF day = "" THEN ts
        ELSE [ts EXCEPT ![day] = Append(FilterOutId(@, id),
                                        Updated(@[FindIndex(@, id)], data))]

\* for (const day of weekdays) { findIndex ...; if (taskIndex !== -1) { replace; break } }
SaveInto(ts, id, data) ==
    LET day == FindDay(ts, id)
    IN  IF day = "" THEN ts
        ELSE [ts EXCEPT ![day] = [@ EXCEPT ![FindIndex(@, id)] = Updated(@, data)]]

\* Faulty variant: the update is not propagated to the list.
MapNotUpdated(list, id, data) == list

\* list.map(t => t.id === id ? { ...t, ...updatedTaskData } : t)
MapUpdated(list, id, data) ==
    [i \in 1..Len(list) |-> IF list[i].id = id THEN Updated(list[i], data) ELSE list[i]]

\* Faulty variant: the commit updates the clipboard entries too.
saveChangesIntoClipboard ==
    /\ steps < session.events
    /\ IF currentTask = Null
       THEN UNCHANGED <<tasks, selectedTasks, folder, isModalOpen, currentTask, clipboard>>
       ELSE /\ tasks' = SaveInto(tasks, currentTask.id, formData)
            /\ selectedTasks' = MapUpdated(selectedTasks, currentTask.id, formData)
            /\ folder' = MapUpdated(folder, currentTask.id, formData)
            /\ clipboard' = MapUpdated(clipboard, currentTask.id, formData)
            /\ isModalOpen' = FALSE
            /\ currentTask' = Null
    /\ UNCHANGED <<draggedTask, clipboardMode, formData>>
    /\ Handled([op |-> "saveChanges"])

saveChanges ==
    /\ steps < session.events
    /\ IF currentTask = Null
       THEN UNCHANGED <<tasks, selectedTasks, folder, isModalOpen, currentTask>>
       ELSE /\ tasks' = SaveInto(tasks, currentTask.id, formData)
            /\ selectedTasks' = MapUpdated(selectedTasks, currentTask.id, formData)
            /\ folder' = MapUpdated(folder, currentTask.id, formData)
            /\ isModalOpen' = FALSE
            /\ currentTask' = Null
    /\ UNCHANGED <<draggedTask, clipboard, clipboardMode, formData>>
    /\ Handled([op |-> "saveChanges"])

\* Characters of a raw input value and their digit values.
Digit(c) ==
    CASE c = "0" -> 0 [] c = "1" -> 1 [] c = "2" -> 2 [] c = "3" -> 3 [] c = "4" -> 4
      [] c = "5" -> 5 [] c = "6" -> 6 [] c = "7" -> 7 [] c = "8" -> 8 [] c = "9" -> 9
      [] OTHER -> -1

NaN == [nan |-> TRUE]
Num(n) == [nan |-> FALSE, val |-> n]

\* The value of the longest prefix of digits of s from index i on, with the
\* number of digits read.
RECURSIVE DigitsFrom(_, _, _, _)
DigitsFrom(s, i, acc, n) ==
    IF i <= Len(s) /\ Digit(s[i]) >= 0
    THEN DigitsFrom(s, i + 1, acc * 10 + Digit(s[i]), n + 1)
    ELSE [val |-> acc, count |-> n]

RECURSIVE SkipSpaces(_, _)
SkipSpaces(s, i) == IF i <= Len(s) /\ s[i] = " " THEN SkipSpaces(s, i + 1) ELSE i

\* parseInt(value, 10): leading white space, an optional sign, then decimal
\* digits up to the first character that is not one; NaN when there is none.
ParseInt(s) ==
    LET i == SkipSpaces(s, 1)
        signed == i <= Len(s) /\ s[i] \in {"-", "+"}
        neg == i <= Len(s) /\ s[i] = "-"
        r == DigitsFrom(s, IF signed THEN i + 1 ELSE i, 0, 0)
    IN  IF r.count = 0 THEN NaN
        ELSE Num(IF neg THEN 0 - r.val ELSE r.val)

\* x || 0 for a number x: NaN and 0 are falsy.
OrZero(x) == IF x.nan \/ x.val = 0 THEN 0 ELSE x.val

\* The values the user types into the title and description fields, and the
\* raw text of the points field.
TitleInputs == {"Bilan"}
DescriptionInputs == {"A revoir"}
PointsInputs == { <<"7">>, <<"-", "3">>, <<"x">> }

handleFormChange(name, value) ==
    /\ steps < session.events
    /\ isModalOpen /\ currentTask # Null   \* the form is rendered only then
    /\ formData' = CASE name = "points"      -> [formData EXCEPT !.points = OrZero(ParseInt(value))]
                     [] name = "title"       -> [formData EXCEPT !.title = value]
                     [] name = "description" -> [formData EXCEPT !.description = value]
    /\ UNCHANGED <<tasks, folder, draggedTask, selectedTasks, clipboard, clipboardMode,
                   isModalOpen, currentTask>>
    /\ Handled([op |-> "handleFormChange", name |-> name])

-----------------------------------------------------------------------------
(* Drag and drop.                                                          *)

\* Faulty variant: a drag of an unselected task leaves the selection alone.
handleDragStartKeepingSelection(task) ==
    /\ steps < session.events
    /\ LET isTaskSelected == SomeId(selectedTasks, task.id)
       IN  IF isTaskSelected /\ Len(selectedTasks) > 1
           THEN draggedTask' = MultiTasks(selectedTasks)
           ELSE draggedTask' = SingleTask(task)
    /\ UNCHANGED <<tasks, folder, selectedTasks, clipboard, clipboardMode,
                   isModalOpen, currentTask, formData>>
    /\ Handled([op |-> "handleDragStart", id |-> task.id])

handleDragStart(task) ==
    /\ steps < session.events
    /\ LET isTaskSelected == SomeId(selectedTasks, task.id)
       IN  IF isTaskSelected /\ Len(selectedTasks) > 1
           THEN /\ draggedTask' = MultiTasks(selectedTasks)
                /\ UNCHANGED selectedTasks
           ELSE /\ draggedTask' = SingleTask(task)
                /\ IF ~isTaskSelected \/ Len(selectedTasks) > 1
                   THEN selectedTasks' = << task >>
                   ELSE UNCHANGED selectedTasks
    /\ UNCHANGED <<tasks, folder, clipboard, clipboardMode, isModalOpen, currentTask, formData>>
    /\ Handled([op |-> "handleDragStart", id |-> task.id])

\* Faulty variant: the moved task is not filtered out of its source bucket.
RECURSIVE MoveFromKeepingSource(_, _, _, _)
MoveFromKeepingSource(ts, tasksToMove, targetDayName, i) ==
    IF i > Len(tasksToMove) THEN ts
    ELSE LET taskToMove == tasksToMove[i]
             sourceDay == FindDay(ts, taskToMove.id)
         IN  MoveFromKeepingSource(
                 IF sourceDay # "" /\ sourceDay # targetDayName
                 THEN IF ~SomeId(ts[targetDayName], taskToMove.id)
                      THEN [ts EXCEPT ![targetDayName] = Append(@, taskToMove)]
                      ELSE ts
                 ELSE ts,
                 tasksToMove, targetDayName, i + 1)

\* Faulty variant: a task owned by the target is moved too, to the end of the target.
RECURSIVE MoveFromAnySource(_, _, _, _)
MoveFromAnySource(ts, tasksToMove, targetDayName, i) ==
    IF i > Len(tasksToMove) THEN ts
    ELSE LET taskToMove == tasksToMove[i]
             sourceDay == FindDay(ts, taskToMove.id)
             removed == [ts EXCEPT ![sourceDay] = FilterOutId(ts[sourceDay], taskToMove.id)]
         IN  MoveFromAnySource(
                 IF sourceDay # ""
                 THEN IF ~SomeId(removed[targetDayName], taskToMove.id)
                      THEN [removed EXCEPT ![targetDayName] = Append(@, taskToMove)]
                      ELSE removed
                 ELSE ts,
                 tasksToMove, targetDayName, i + 1)

\* tasksToMove.forEach(taskToMove => ...) over newTasks, from index i on.
RECURSIVE MoveFrom(_, _, _, _)
MoveFrom(ts, tasksToMove, targetDayName, i) ==
    IF i > Len(tasksToMove) THEN ts
    ELSE LET taskToMove == tasksToMove[i]
             sourceDay == FindDay(ts, taskToMove.id)
             removed == [ts EXCEPT ![sourceDay] = FilterOutId(ts[sourceDay], taskToMove.id)]
         IN  MoveFrom(IF sourceDay # "" /\ sourceDay # targetDayName
                      THEN IF ~SomeId(removed[targetDayName], taskToMove.id)
                           THEN [removed EXCEPT ![targetDayName] = Append(@, taskToMove)]
                           ELSE removed
                      ELSE ts,
                      tasksToMove, targetDayName, i + 1)

\* Faulty variant: the payload is consumed only by a drop that moved a task.
handleDayDropClearingOnChange(targetDayName) ==
    /\ steps < session.events
    /\ IF draggedTask = Null
       THEN UNCHANGED <<tasks, draggedTask>>
       ELSE /\ tasks' = MoveFrom(tasks, PayloadOf(draggedTask), targetDayName, 1)
            /\ draggedTask' = IF tasks' = tasks THEN draggedTask ELSE Null
    /\ UNCHANGED <<folder, selectedTasks, clipboard, clipboardMode, isModalOpen, currentTask, formData>>
    /\ Handled([op |-> "handleDayDrop", day |-> targetDayName])

handleDayDrop(targetDayName) ==
    /\ steps < session.events
    /\ IF draggedTask = Null
       THEN UNCHANGED <<tasks, draggedTask>>
       ELSE /\ tasks' = MoveFrom(tasks, PayloadOf(draggedTask), targetDayName, 1)
            /\ draggedTask' = Null
    /\ UNCHANGED <<folder, selectedTasks, clipboard, clipboardMode, isModalOpen, currentTask, formData>>
    /\ Handled([op |-> "handleDayDrop", day |-> targetDayName])

\* Faulty variant: the drop on the folder takes the tasks out of their buckets.
handleFolderDropMoving ==
    /\ steps < session.events
    /\ IF draggedTask = Null
       THEN UNCHANGED <<folder, draggedTask, tasks>>
       ELSE /\ folder' = folder \o NewTasksForFolder(PayloadOf(draggedTask), folder)
            /\ tasks' = [d \in Days |->
                            SelectSeq(tasks[d], LAMBDA t : ~SomeId(PayloadOf(draggedTask), t.id))]
            /\ draggedTask' = Null
    /\ UNCHANGED <<selectedTasks, clipboard, clipboardMode, isModalOpen, currentTask, formData>>
    /\ Handled([op |-> "handleFolderDrop"])

handleFolderDrop ==
    /\ steps < session.events
    /\ IF draggedTask = Null
       THEN UNCHANGED <<folder, draggedTask>>
       ELSE /\ folder' = folder \o NewTasksForFolder(PayloadOf(draggedTask), folder)
            /\ draggedTask' = Null
    /\ UNCHANGED <<tasks, selectedTasks, clipboard, clipboardMode, isModalOpen, currentTask, formData>>
    /\ Handled([op |-> "handleFolderDrop"])

-----------------------------------------------------------------------------
(* The user's events.                                                      *)

\* Ids the user can name when removing from the folder: the folder rows, and
\* the ids of the cards (present in the folder or not).
RemovableIds == Ids(folder) \cup {t.id : t \in Cards}

Next ==
    \/ \E task \in Cards, isCtrlPressed \in BOOLEAN : selectTask(task, isCtrlPressed)
    \/ copySelectedTasks
    \/ cutSelectedTasks
    \/ \E day \in UserDays : pasteTasksToDay(day)
    \/ addSelectedTasksToFolder
    \/ \E taskId \in RemovableIds : removeFromFolder(taskId)
    \/ \E task \in Cards : openEditModal(task)
    \/ closeModal
    \/ saveChanges
    \/ \E value \in TitleInputs : handleFormChange("title", value)
    \/ \E value \in DescriptionInputs : handleFormChange("description", value)
    \/ \E value \in PointsInputs : handleFormChange("points", value)
    \/ \E task \in Cards : handleDragStart(task)
    \/ \E targetDayName \in UserDays : handleDayDrop(targetDayName)
    \/ handleFolderDrop

Spec == Init /\ [][Next]_vars

-----------------------------------------------------------------------------
(* Vocabulary of the properties.                                           *)

Content(t) == <<t.title, t.description, t.points>>

\* The places (day, index) of the buckets ts that hold the id.
Places(ts, id) == UNION {{<<d, i>> : i \in {j \in 1..Len(ts[d]) : ts[d][j].id = id}} : d \in Days}

\* The entries a sequence holds for the id.
Entries(s, id) == {s[i] : i \in {j \in 1..Len(s) : s[j].id = id}}

\* The bucket entries of ts for the id.
BucketEntries(ts, id) == UNION {Entries(ts[d], id) : d \in Days}

NoRepeatedId(s) == \A i, j \in 1..Len(s) : s[i].id = s[j].id => i = j

-----------------------------------------------------------------------------
\* C1: in every reachable state no task id is held at two places of the
\* buckets: neither in two buckets nor twice in one bucket.
C1_IdInAtMostOnePlace ==
    \A id \in AllTaskIds(tasks) : Cardinality(Places(tasks, id)) = 1

\* C1 case: a cut-mode paste has just appended the cut tasks to a bucket that
\* held a task already.
C1_Witness ==
    /\ last.op = "pasteTasksToDay"
    /\ before.clipboardMode = "cut"
    /\ Len(before.clipboard) >= 1
    /\ Len(before.tasks[last.day]) >= 1
    /\ Len(tasks[last.day]) = Len(before.tasks[last.day]) + Len(before.clipboard)

\* C2: in every reachable state no task id is held twice by the folder.
C2_IdAtMostOnceInFolder == NoRepeatedId(folder)

\* C2 case: a drop on the folder of a payload of which one task was in the
\* folder already and another was not.
C2_Witness ==
    /\ last.op = "handleFolderDrop"
    /\ \E t \in Range(PayloadOf(before.draggedTask)) : SomeId(before.folder, t.id)
    /\ Len(folder) > Len(before.folder)

\* C3: every id a copy-mode paste allocates is strictly greater than every id
\* observed anywhere in the store (buckets, folder, selection, clipboard,
\* drag payload) at any earlier point of the run.
C3_AllocatedIdsAboveAllSeen ==
    [][\A day \in Days :
          (/\ last'.op = "pasteTasksToDay" /\ last'.day = day
           /\ clipboardMode = "copy" /\ Len(clipboard) > 0)
          => \A i \in (Len(tasks[day]) + 1)..Len(tasks'[day]) :
                \A seen \in seenIds : tasks'[day][i].id > seen]_vars

\* C4: one logical identity, one content: for every task a bucket holds, every
\* folder entry and every selection entry of the same id has the same title,
\* description and points.
C4_OneIdentityOneContent ==
    \A id \in AllTaskIds(tasks) :
        \A t \in BucketEntries(tasks, id) :
            \A e \in Entries(folder, id) \cup Entries(selectedTasks, id) :
                Content(e) = Content(t)

\* C5: cut() immediately followed by pasteInto(B), for a non-empty selection:
\* every cut task is then in B, once, being in no other bucket, with the id
\* and the content it had in its bucket before the cut; the clipboard is empty
\* and the mode is copy again; and a paste that follows at once changes
\* nothing.  ("Absent from its original bucket" is read as "in no bucket but
\* B", B being free to be the original bucket.)
C5_CutThenPasteMoves ==
    [][\A B \in Days :
          /\ (/\ last.op = "cutSelectedTasks" /\ Len(before.selectedTasks) > 0
              /\ last'.op = "pasteTasksToDay" /\ last'.day = B)
             => /\ \A id \in Ids(before.selectedTasks) :
                      /\ \A place \in Places(tasks', id) : place[1] = B
                      /\ Cardinality(Places(tasks', id)) = 1
                      /\ BucketEntries(tasks', id) = BucketEntries(before.tasks, id)
                /\ clipboard' = << >>
                /\ clipboardMode' = "copy"
          /\ (/\ last.op = "pasteTasksToDay" /\ before.clipboardMode = "cut"
              /\ Len(before.clipboard) > 0
              /\ last'.op = "pasteTasksToDay" /\ last'.day = B)
             => store' = store]_vars

\* C6: copy() followed by pasteInto(B) twice, for a non-empty selection: each
\* of the two pastes appends to B, per selected task, one task with the title,
\* description and points of the selected task's bucket entry and an id that
\* no bucket held before that paste (so the two duplicates differ in id from
\* each other and from every older task); the buckets are otherwise unchanged
\* (the originals stay), and so are the clipboard and the mode, copy.
C6_CopyThenPasteDuplicates ==
    [][\A B \in Days :
          (/\ last'.op = "pasteTasksToDay" /\ last'.day = B /\ last'.nth \in {1, 2}
           /\ Len(selectedTasks) > 0)
          => /\ Len(tasks'[B]) = Len(tasks[B]) + Len(selectedTasks)
             /\ SubSeq(tasks'[B], 1, Len(tasks[B])) = tasks[B]
             /\ \A d \in Days \ {B} : tasks'[d] = tasks[d]
             /\ \A i \in 1..Len(selectedTasks) :
                   LET new == tasks'[B][Len(tasks[B]) + i]
                   IN  /\ new.id \notin AllTaskIds(tasks)
                       /\ \A j \in 1..Len(selectedTasks) :
                             tasks'[B][Len(tasks[B]) + j].id = new.id => i = j
                       /\ \E t \in BucketEntries(tasks, selectedTasks[i].id) :
                             Content(new) = Content(t)
             /\ clipboard' = clipboard /\ Len(clipboard) > 0
             /\ clipboardMode' = "copy"]_vars

\* C7: no task is ever destroyed: every task id that has been in a bucket is
\* in exactly one bucket, or held by the clipboard in cut mode, from which it
\* can still be pasted.  (Every id seen anywhere in the store has been in a
\* bucket: the folder, the selection, the clipboard and the payload are filled
\* from the cards.)
C7_NoTaskDestroyed ==
    \A id \in seenIds :
        \/ Cardinality(Places(tasks, id)) = 1
        \/ clipboardMode = "cut" /\ SomeId(clipboard, id)

\* C8: in every reachable state the selection holds only ids of tasks that
\* are in some bucket, and holds no id twice.
C8_SelectionOfBucketTasks ==
    /\ Ids(selectedTasks) \subseteq AllTaskIds(tasks)
    /\ NoRepeatedId(selectedTasks)

\* C8 case: two tasks are selected, one was cut and pasted back before, and a
\* drop has just moved selected tasks to another bucket.
C8_Witness ==
    /\ last.op = "handleDayDrop"
    /\ Len(selectedTasks) >= 2
    /\ tasks # before.tasks

\* C9: a drop on a bucket, with a pending payload of which every task is
\* owned by that bucket, changes no bucket and clears the payload.
C9_DropOnOwnBucket ==
    (/\ last.op = "handleDayDrop"
     /\ before.draggedTask # Null
     /\ \A t \in Range(PayloadOf(before.draggedTask)) : FindDay(before.tasks, t.id) = last.day)
    => /\ tasks = before.tasks
       /\ draggedTask = Null

\* C9 case: such a drop has happened, on a bucket holding two tasks, the
\* payload being the first of them.
C9_Witness ==
    /\ last.op = "handleDayDrop"
    /\ before.draggedTask # Null
    /\ \A t \in Range(PayloadOf(before.draggedTask)) : FindDay(before.tasks, t.id) = last.day
    /\ Len(before.tasks[last.day]) >= 2
    /\ SomeId(PayloadOf(before.draggedTask), before.tasks[last.day][1].id)

\* C10: addSelectionToFolder() with a non-empty selection leaves each selected
\* task in the folder exactly once; called again with the same tasks selected
\* (every selected id being in the folder already), it leaves the folder
\* unchanged.
C10_AddToFolderIdempotent ==
    (last.op = "addSelectedTasksToFolder" /\ Len(before.selectedTasks) > 0)
    => /\ \A id \in Ids(before.selectedTasks) : Cardinality(Entries(folder, id)) = 1
       /\ NoRepeatedId(folder)
       /\ Ids(before.selectedTasks) \subseteq Ids(before.folder) => folder = before.folder

\* C10 case: the second call: a non-empty selection of tasks that are all in
\* the folder was added again.
C10_Witness ==
    /\ last.op = "addSelectedTasksToFolder"
    /\ Len(before.selectedTasks) > 0
    /\ Ids(before.selectedTasks) \subseteq Ids(before.folder)

\* The entries of s as they are when those of the id carry the content of
\* data and the others are left alone.
WithContent(s, id, data) ==
    [i \in 1..Len(s) |->
        IF s[i].id = id
        THEN [id |-> id, title |-> data.title, description |-> data.description,
              points |-> data.points]
        ELSE s[i]]

\* C11: commitEdit() on a task that is in a bucket, selected and in the
\* folder leaves its bucket entry, its selection entry and its folder entry
\* with the title, description and points of the form buffer (and their id),
\* and leaves the entries of other ids, and every order, as they were.
C11_EditPropagates ==
    LET id == before.currentTask.id
    IN  (/\ last.op = "saveChanges"
         /\ before.currentTask # Null
         /\ id \in AllTaskIds(before.tasks)
         /\ SomeId(before.selectedTasks, id)
         /\ SomeId(before.folder, id))
        => /\ \A d \in Days : tasks[d] = WithContent(before.tasks[d], id, before.formData)
           /\ selectedTasks = WithContent(before.selectedTasks, id, before.formData)
           /\ folder = WithContent(before.folder, id, before.formData)
           /\ \A e \in BucketEntries(tasks, id) \cup Entries(selectedTasks, id)
                       \cup Entries(folder, id) :
                 Content(e) = Content(before.formData)

\* C11 case: such an edit was committed, with a form buffer that differs from
\* the task as it was in the bucket, the selection and the folder.
C11_Witness ==
    /\ last.op = "saveChanges"
    /\ before.currentTask # Null
    /\ before.currentTask.id \in AllTaskIds(before.tasks)
    /\ SomeId(before.selectedTasks, before.currentTask.id)
    /\ SomeId(before.folder, before.currentTask.id)
    /\ \A e \in BucketEntries(before.tasks, before.currentTask.id)
                \cup Entries(before.selectedTasks, before.currentTask.id)
                \cup Entries(before.folder, before.currentTask.id) :
          Content(e) # Content(before.formData)

\* C12: select(taskId, modifier): with the modifier it toggles taskId in the
\* selection and leaves the other selected entries, and their order, alone;
\* without it the selection becomes empty if it was exactly {taskId}, and
\* exactly {taskId} otherwise.  Buckets, folder, clipboard, mode and payload
\* are unchanged.
C12_Select ==
    (last.op = "selectTask")
    => /\ IF last.ctrl
          THEN /\ Ids(selectedTasks) =
                     IF last.id \in Ids(before.selectedTasks)
                     THEN Ids(before.selectedTasks) \ {last.id}
                     ELSE Ids(before.selectedTasks) \cup {last.id}
               /\ SelectSeq(selectedTasks, LAMBDA t : t.id # last.id)
                     = SelectSeq(before.selectedTasks, LAMBDA t : t.id # last.id)
               /\ Len(selectedTasks) = Cardinality(Ids(selectedTasks))
          ELSE IF Ids(before.selectedTasks) = {last.id}
               THEN selectedTasks = << >>
               ELSE Ids(selectedTasks) = {last.id} /\ Len(selectedTasks) = 1
       /\ tasks = before.tasks
       /\ folder = before.folder
       /\ clipboard = before.clipboard
       /\ clipboardMode = before.clipboardMode
       /\ draggedTask = before.draggedTask

\* C12 case: a click without the modifier on the only selected task, and so a
\* deselection.
C12_Witness ==
    /\ last.op = "selectTask"
    /\ ~last.ctrl
    /\ Ids(before.selectedTasks) = {last.id}
    /\ Len(before.clipboard) > 0

\* C13: beginDrag(task): if the task is selected and the selection has more
\* than one member, the payload is the whole selection and the selection is
\* unchanged; otherwise the payload is that task alone and the selection is
\* then exactly {task}.  In every case the task is in the payload and in the
\* selection.
C13_BeginDrag ==
    (last.op = "handleDragStart")
    => /\ IF SomeId(before.selectedTasks, last.id) /\ Len(before.selectedTasks) > 1
          THEN /\ draggedTask.kind = "multiTasks"
               /\ PayloadOf(draggedTask) = before.selectedTasks
               /\ selectedTasks = before.selectedTasks
          ELSE /\ draggedTask.kind = "singleTask"
               /\ Ids(PayloadOf(draggedTask)) = {last.id}
               /\ Len(PayloadOf(draggedTask)) = 1
               /\ Ids(selectedTasks) = {last.id}
               /\ Len(selectedTasks) = 1
       /\ SomeId(PayloadOf(draggedTask), last.id)
       /\ SomeId(selectedTasks, last.id)

\* C13 case: a drag of one of two selected tasks, and so a payload of two.
C13_Witness ==
    /\ last.op = "handleDragStart"
    /\ SomeId(before.selectedTasks, last.id)
    /\ Len(before.selectedTasks) = 2
    /\ draggedTask.kind = "multiTasks"

\* C14: dropOnBucket(target) with a pending payload: a payload task owned by
\* another bucket leaves that bucket and is in target, at one place; a payload
\* task owned by target stays where it is, as it is; a payload task owned by
\* no bucket is in no bucket afterwards.
C14_DropMoves ==
    (last.op = "handleDayDrop" /\ before.draggedTask # Null)
    => \A id \in Ids(PayloadOf(before.draggedTask)) :
          LET owner == FindDay(before.tasks, id)
          IN  CASE owner = ""       -> id \notin AllTaskIds(tasks)
                [] owner = last.day -> /\ \A place \in Places(before.tasks, id) :
                                             /\ place \in Places(tasks, id)
                                             /\ tasks[place[1]][place[2]]
                                                   = before.tasks[place[1]][place[2]]
                                       /\ Places(tasks, id) = Places(before.tasks, id)
                [] OTHER            -> /\ ~SomeId(tasks[owner], id)
                                       /\ Cardinality(Places(tasks, id)) = 1
                                       /\ \A place \in Places(tasks, id) : place[1] = last.day

\* C14 case: a drop of a payload of two tasks, one owned by the target and one
\* by another bucket.
C14_Witness ==
    /\ last.op = "handleDayDrop"
    /\ before.draggedTask # Null
    /\ \E t \in Range(PayloadOf(before.draggedTask)) : FindDay(before.tasks, t.id) = last.day
    /\ \E t \in Range(PayloadOf(before.draggedTask)) :
          FindDay(before.tasks, t.id) \notin {"", last.day}

\* C14 case: a drop of a payload whose task is in no bucket, having been cut
\* after the drag began.
C14_WitnessOwnedByNone ==
    /\ last.op = "handleDayDrop"
    /\ before.draggedTask # Null
    /\ \E t \in Range(PayloadOf(before.draggedTask)) : FindDay(before.tasks, t.id) = ""

\* The task state: buckets, folder, selection, clipboard, mode and payload.
TaskState(st) == <<st.tasks, st.folder, st.selectedTasks, st.clipboard,
                   st.clipboardMode, st.draggedTask>>

\* The last operation was called with its precondition failing, the case of
\* a commit whose target is in no bucket left aside.
PreconditionFailed ==
    \/ last.op \in {"copySelectedTasks", "cutSelectedTasks", "addSelectedTasksToFolder"}
          /\ before.selectedTasks = << >>
    \/ last.op = "pasteTasksToDay" /\ before.clipboard = << >>
    \/ last.op \in {"handleDayDrop", "handleFolderDrop"} /\ before.draggedTask = Null
    \/ last.op = "removeFromFolder" /\ ~SomeId(before.folder, last.id)
    \/ last.op = "saveChanges" /\ before.currentTask = Null

\* The last operation was a commit of an edit whose target is in no bucket.
CommitTargetInNoBucket ==
    /\ last.op = "saveChanges"
    /\ before.currentTask # Null
    /\ before.currentTask.id \notin AllTaskIds(before.tasks)

\* C15: an operation called with its precondition failing (copy, cut or
\* addSelectionToFolder with an empty selection, pasteInto with an empty
\* clipboard, a drop with no payload, removeFromFolder of an absent id,
\* commitEdit with no edit in progress, commitEdit whose target id is in no
\* bucket) leaves buckets, folder, selection, clipboard, mode and payload
\* unchanged.
C15_SilentNoOp ==
    (PreconditionFailed \/ CommitTargetInNoBucket)
    => TaskState(Snapshot) = TaskState(before)

\* C15 but for the commit whose target is in no bucket: the other operations
\* change nothing when their precondition fails.
C15_SilentNoOpButCommit ==
    PreconditionFailed => TaskState(Snapshot) = TaskState(before)

\* C16: commitEdit() on a task whose id is in the clipboard leaves the
\* clipboard and its mode as they were, and a paste appends tasks with the
\* title, description and points of the clipboard's entries, in their order.
C16_ClipboardIsSnapshot ==
    /\ (/\ last.op = "saveChanges"
        /\ before.currentTask # Null
        /\ SomeId(before.clipboard, before.currentTask.id))
       => /\ clipboard = before.clipboard
          /\ clipboardMode = before.clipboardMode
    /\ (last.op = "pasteTasksToDay" /\ before.clipboard # << >>)
       => /\ Len(tasks[last.day]) = Len(before.tasks[last.day]) + Len(before.clipboard)
          /\ \A i \in 1..Len(before.clipboard) :
                Content(tasks[last.day][Len(before.tasks[last.day]) + i])
                   = Content(before.clipboard[i])

\* C16 case: a paste of a task that was edited, and the edit committed, after
\* it was copied or cut: the pasted content is not the form buffer's.
C16_Witness ==
    /\ last.op = "pasteTasksToDay"
    /\ before.clipboard # << >>
    /\ before.formData.title \in TitleInputs
    /\ ~before.isModalOpen
    /\ \E t \in Range(tasks[last.day]) : t.title \in TitleInputs
    /\ tasks[last.day][Len(tasks[last.day])].title \notin TitleInputs

\* C17: every task of the buckets, the folder, the selection and the clipboard
\* has points that are a non-negative integer.
C17_PointsNonNegative ==
    \A t \in UNION {Range(tasks[d]) : d \in Days} \cup Range(folder)
             \cup Range(selectedTasks) \cup Range(clipboard) :
       t.points \in Nat

\* C17, second half: the form buffer's points are 0 after an input that is
\* not a number.
C17_UnparsableIsZero ==
    \A value \in PointsInputs : ParseInt(value) = NaN => OrZero(ParseInt(value)) = 0

\* C18: removeFromFolder(taskId) removes the folder entry of that id and no
\* other, keeps the other entries in their order, and leaves buckets,
\* selection, clipboard, mode and payload unchanged.
C18_RemoveFromFolder ==
    (last.op = "removeFromFolder")
    => /\ ~SomeId(folder, last.id)
       /\ IF SomeId(before.folder, last.id)
          THEN LET k == FindIndex(before.folder, last.id)
               IN  folder = SubSeq(before.folder, 1, k - 1)
                               \o SubSeq(before.folder, k + 1, Len(before.folder))
          ELSE folder = before.folder
       /\ tasks = before.tasks
       /\ selectedTasks = before.selectedTasks
       /\ clipboard = before.clipboard
       /\ clipboardMode = before.clipboardMode
       /\ draggedTask = before.draggedTask

\* C18 case: the first of two folder entries was removed, and the task is
\* still in its bucket.
C18_Witness ==
    /\ last.op = "removeFromFolder"
    /\ Len(before.folder) = 2
    /\ before.folder[1].id = last.id
    /\ last.id \in AllTaskIds(tasks)
    /\ Len(folder) = 1

\* C19: a dropOnBucket or dropOnFolder with a pending payload leaves no
\* payload, whether or not it changed anything, and a drop that follows it
\* with no beginDrag in between changes nothing.
C19_DropConsumesPayload ==
    [][/\ (last'.op \in {"handleDayDrop", "handleFolderDrop"} /\ draggedTask # Null)
          => draggedTask' = Null
       /\ (/\ last.op \in {"handleDayDrop", "handleFolderDrop"}
           /\ before.draggedTask # Null
           /\ last'.op \in {"handleDayDrop", "handleFolderDrop"})
          => store' = store]_vars

\* C19 case: a drop on the folder of a payload whose tasks were all in the
\* folder: nothing was added, and the payload is gone.
C19_Witness ==
    /\ last.op = "handleFolderDrop"
    /\ before.draggedTask # Null
    /\ folder = before.folder
    /\ draggedTask = Null

\* C20: dropOnFolder() with a pending payload appends to the folder the
\* payload tasks whose id is not in the folder, each once and in the
\* payload's order, keeps the entries the folder had, and leaves buckets,
\* selection, clipboard and mode unchanged.
C20_DropOnFolder ==
    (last.op = "handleFolderDrop" /\ before.draggedTask # Null)
    => LET payload == PayloadOf(before.draggedTask)
           added == SubSeq(folder, Len(before.folder) + 1, Len(folder))
       IN  /\ Len(folder) >= Len(before.folder)
           /\ SubSeq(folder, 1, Len(before.folder)) = before.folder
           /\ added = SelectSeq(payload, LAMBDA t : t.id \notin Ids(before.folder))
           /\ Ids(added) = Ids(payload) \ Ids(before.folder)
           /\ NoRepeatedId(added)
           /\ tasks = before.tasks
           /\ selectedTasks = before.selectedTasks
           /\ clipboard = before.clipboard
           /\ clipboardMode = before.clipboardMode

\* C20 case: a drop on the folder of a payload of two tasks, one of them in
\* the folder already.
C20_Witness ==
    /\ last.op = "handleFolderDrop"
    /\ before.draggedTask # Null
    /\ Len(PayloadOf(before.draggedTask)) = 2
    /\ Len(before.folder) = 1
    /\ Len(folder) = 2

\* C21: addSelectionToFolder() with a non-empty selection ends with an empty
\* selection, whether or not a folder entry was added, and leaves buckets,
\* clipboard and clipboard mode unchanged.
C21_AddToFolderClearsSelection ==
    (last.op = "addSelectedTasksToFolder" /\ before.selectedTasks # << >>)
    => /\ selectedTasks = << >>
       /\ tasks = before.tasks
       /\ clipboard = before.clipboard
       /\ clipboardMode = before.clipboardMode

\* C21 case: two tasks were selected, one of them in the folder already; the
\* other was added.
C21_Witness ==
    /\ last.op = "addSelectedTasksToFolder"
    /\ Len(before.selectedTasks) = 2
    /\ Len(folder) = Len(before.folder) + 1
    /\ selectedTasks = << >>

\* C21 case: the selected task was in the folder already, no entry was added,
\* and a clipboard was held.
C21_WitnessNothingAdded ==
    /\ last.op = "addSelectedTasksToFolder"
    /\ before.selectedTasks # << >>
    /\ folder = before.folder
    /\ selectedTasks = << >>
    /\ clipboard # << >>

\* The ids of the entries of s, in their order.
IdSeq(s) == [i \in 1..Len(s) |-> s[i].id]

\* The entries of bucket d before the last operation that the bucket still
\* holds (by id), in the order they had.
Stayed(d) == SelectSeq(before.tasks[d], LAMBDA t : SomeId(tasks[d], t.id))

\* The last operation can bring tasks into bucket d.
ArrivesIn(d) ==
    /\ last.op \in {"pasteTasksToDay", "handleDayDrop"}
    /\ last.day = d

\* C22: every operation keeps, in every bucket, the relative order of the
\* tasks that are in it before and after; the tasks that a pasteInto or a
\* dropOnBucket brings are after all of those, and no other operation brings
\* a task into a bucket.
C22_BucketOrderPreserved ==
    (last.op # "init")
    => \A d \in Days :
          LET n == Len(Stayed(d))
          IN  /\ n <= Len(tasks[d])
              /\ IdSeq(SubSeq(tasks[d], 1, n)) = IdSeq(Stayed(d))
              /\ \A i \in (n + 1)..Len(tasks[d]) :
                    /\ ArrivesIn(d)
                    /\ ~SomeId(before.tasks[d], tasks[d][i].id)

\* C22 case: a drop brought a task into a bucket that held two.
C22_Witness ==
    /\ last.op = "handleDayDrop"
    /\ Len(before.tasks[last.day]) = 2
    /\ Len(tasks[last.day]) = 3

\* C22 case: a task left a bucket in which two tasks stay.
C22_WitnessLeaving ==
    /\ last.op \in {"cutSelectedTasks", "handleDayDrop"}
    /\ \E d \in Days : Len(before.tasks[d]) = 3 /\ Len(tasks[d]) = 2

\* C23: commitEdit() with an edit in progress leaves every bucket with the
\* ids it had at the places they had, changes no bucket task but the target,
\* and of the target only title, description and points, and leaves no edit
\* in progress; cancelEdit() leaves no edit in progress and changes no task
\* of the buckets, the folder, the selection, the clipboard or the payload.
C23_EditFrame ==
    /\ (last.op = "saveChanges" /\ before.currentTask # Null)
       => /\ \A d \in Days :
                /\ IdSeq(tasks[d]) = IdSeq(before.tasks[d])
                /\ \A i \in 1..Len(tasks[d]) :
                      tasks[d][i].id # before.currentTask.id
                         => tasks[d][i] = before.tasks[d][i]
          /\ ~isModalOpen
          /\ currentTask = Null
    /\ (last.op = "closeModal")
       => /\ TaskState(Snapshot) = TaskState(before)
          /\ ~isModalOpen
          /\ currentTask = Null

\* C23 case: the commit of an edit that changed the first task of a bucket
\* of several.
C23_Witness ==
    /\ last.op = "saveChanges"
    /\ before.currentTask # Null
    /\ \E d \in Days :
          /\ Len(before.tasks[d]) >= 2
          /\ before.tasks[d][1].id = before.currentTask.id
          /\ tasks[d][1] # before.tasks[d][1]

\* C23 case: an edit with a changed form buffer was cancelled.
C23_WitnessCancel ==
    /\ last.op = "closeModal"
    /\ before.currentTask # Null
    /\ Content(before.formData) # Content(before.currentTask)

\* C24: while the clipboard mode is cut the clipboard is not empty and no id
\* of the clipboard is in a bucket.
C24_CutClipboardOutsideBuckets ==
    (clipboardMode = "cut")
    => /\ clipboard # << >>
       /\ Ids(clipboard) \cap AllTaskIds(tasks) = {}

\* C24 case: a cut clipboard is held while a drop of the payload that holds
\* the cut task, taken before the cut, has been handled.
C24_Witness ==
    /\ clipboardMode = "cut"
    /\ last.op = "handleDayDrop"
    /\ before.draggedTask # Null
    /\ \E t \in Range(PayloadOf(before.draggedTask)) : SomeId(clipboard, t.id)

\* C25, the ids: a dropOnBucket leaves the buckets with the ids they held.
C25_DropConservesIds ==
    (last.op = "handleDayDrop")
    => /\ AllTaskIds(tasks) = AllTaskIds(before.tasks)
       /\ \A id \in AllTaskIds(tasks) :
             Cardinality(Places(tasks, id)) = Cardinality(Places(before.tasks, id))

\* C25: a dropOnBucket, whatever the pending payload, leaves the buckets
\* with the ids they held, and every bucket task with the title, description
\* and points it had.
C25_DropConservesTasks ==
    (last.op = "handleDayDrop")
    => /\ AllTaskIds(tasks) = AllTaskIds(before.tasks)
       /\ \A id \in AllTaskIds(tasks) :
             {Content(e) : e \in BucketEntries(tasks, id)}
                = {Content(e) : e \in BucketEntries(before.tasks, id)}

====
